---- MODULE Spec2Model ----
(***************************************************************************)
(* A model of the GCS file-volume analysis program: main.py's loop over    *)
(* PREFIX_LIST, controller.process_prefix, model.GCSFileFetcher and        *)
(* model.human_readable_size, and the view functions the controller calls. *)
(*                                                                         *)
(* Numbers.  TLC's integers are 32 bits wide, a byte count is an int64.    *)
(* A Python/NumPy integer is therefore a sequence of base-1024 digits,     *)
(* least significant first, with no leading zero digit (0 is << >>).  A    *)
(* float64 produced by the statistics is the exact value it is nearest to: *)
(* num/den, or the square root of num/den, or NaN.                         *)
(***************************************************************************)
EXTENDS Integers, Sequences, FiniteSets, TLC

VARIABLES
    pc,         \* where main is: "main", a view call site, "done", "crashed"
    k,          \* number of prefixes of PREFIX_LIST taken by the for loop
    raw,        \* the blobs list_blobs returned for the current prefix
    df,         \* process_prefix's local df
    fetched,    \* df as fetch_file_records returned it
    exc,        \* the exception that ended main, or "none"
    stats,      \* show_statistics' locals (lines 63-66)
    output,     \* the lines printed and logged for the current prefix
    hist,       \* plot_histogram's locals (lines 197-201)
    daily,      \* plot_daily_file_counts' daily_counts
    outcome,    \* per prefix taken: the views its process_prefix call
                \* invoked and how the call ended
    files,      \* the files written under output/, a CSV with its header
    fx,         \* human_readable_size: the argument
    fpc,        \* human_readable_size: "idle", "call" or "returned"
    fres        \* human_readable_size: the result (a string or an exception)

vars == <<pc, k, raw, df, fetched, exc, stats, output, hist, daily,
          outcome, files, fx, fpc, fres>>

pipeVars == <<pc, k, raw, df, fetched, exc, stats, output, hist, daily,
              outcome, files>>

fmtVars == <<fx, fpc, fres>>

----------------------------------------------------------------------------
(* Numbers *)

Base == 1024

size_name == <<"B", "KB", "MB", "GB", "TB", "PB">>

Max(a, b) == IF a >= b THEN a ELSE b

RECURSIVE Pow(_, _)
Pow(b, e) == IF e = 0 THEN 1 ELSE b * Pow(b, e - 1)

RECURSIVE ToDigits(_)
ToDigits(n) == IF n = 0 THEN << >> ELSE <<n % Base>> \o ToDigits(n \div Base)

PyInt(d) == [kind |-> "int", digits |-> d, num |-> 0, den |-> 1, root |-> FALSE]

Float(n, m) == [kind |-> "float", digits |-> << >>, num |-> n, den |-> m, root |-> FALSE]

FloatSqrt(n, m) == [kind |-> "float", digits |-> << >>, num |-> n, den |-> m, root |-> TRUE]

NaN == [kind |-> "nan", digits |-> << >>, num |-> 0, den |-> 1, root |-> FALSE]

IsZero(x) ==
    CASE x.kind = "int" -> x.digits = << >>
      [] x.kind = "float" -> x.num = 0
      [] OTHER -> FALSE

BitLen(d) == CHOOSE b \in 1..10 : Pow(2, b - 1) <= d /\ d < Pow(2, b)

RECURSIVE AddOneAt(_, _)
(* d + Base^(j-1), carrying *)
AddOneAt(d, j) ==
    IF j > Len(d) THEN d \o <<1>>
    ELSE IF d[j] + 1 < Base THEN [d EXCEPT ![j] = d[j] + 1]
    ELSE AddOneAt([d EXCEPT ![j] = 0], j + 1)

(* d with its lowest digit rounded to a multiple of q = 2^r, half to even;
   lsb is the lowest bit that is kept *)
RoundLow(d, q, lsb) ==
    IF 2 * (d[1] % q) < q \/ (2 * (d[1] % q) = q /\ lsb = 0)
    THEN [d EXCEPT ![1] = d[1] - (d[1] % q)]
    ELSE IF d[1] - (d[1] % q) + q < Base
    THEN [d EXCEPT ![1] = d[1] - (d[1] % q) + q]
    ELSE AddOneAt([d EXCEPT ![1] = 0], 2)

DropBits(d, r) ==
    IF r <= 0 THEN d
    ELSE RoundLow(d, Pow(2, r),
                  IF r < 10 THEN (d[1] \div Pow(2, r)) % 2 ELSE d[2] % 2)

(* The float64 nearest to the integer d (below 2^63): 53 significant bits
   are kept, the dropped low bits round half to even. *)
ToFloat64(d) ==
    IF d = << >> THEN d
    ELSE DropBits(d, 10 * (Len(d) - 1) + BitLen(d[Len(d)]) - 53)

(* np.log, the division and round take a float64: an integer is converted *)
AsFloat64(x) == IF x.kind = "int" THEN PyInt(ToFloat64(x.digits)) ELSE x

(* Base^Len(y) - y for a float64 integer y, when it is below Base^2; Base^2
   otherwise. *)
BelowPower(y) ==
    IF \A j \in 3..Len(y) : y[j] = Base - 1
    THEN Base * Base - ((IF Len(y) >= 2 THEN y[2] * Base ELSE 0) + y[1])
    ELSE Base * Base

(* np.log(y) / np.log(1024) in float64 arithmetic is exactly n, and not
   below it, for y this close under 1024^n: the two logarithms are rounded
   to 53 bits and so is their quotient.  Under 1024^1 .. 1024^4 an integer
   is always resolved. *)
LogSlack(n) == CASE n = 5 -> 3 [] n = 6 -> 6144 [] OTHER -> 0

RECURSIVE IdxUp(_, _, _)
IdxUp(n, m, b) == IF n >= m * b THEN 1 + IdxUp(n, m * b, b) ELSE 0

RECURSIVE IdxDown(_, _, _)
IdxDown(n, m, b) == IF n >= m THEN 0 ELSE IdxDown(n * b, m, b) - 1

(* int(np.floor(np.log(size_bytes) / np.log(1024))) for a float64
   size_bytes > 0 *)
UnitIndex(x) ==
    IF x.kind = "int"
    THEN IF BelowPower(x.digits) <= LogSlack(Len(x.digits))
         THEN Len(x.digits) ELSE Len(x.digits) - 1
    ELSE IF x.num >= x.den
    THEN IdxUp(x.num, x.den, IF x.root THEN Base * Base ELSE Base)
    ELSE IdxDown(x.num, x.den, IF x.root THEN Base * Base ELSE Base)

RECURSIVE ISqrt(_)
ISqrt(v) ==
    IF v < 2 THEN v
    ELSE IF (2 * ISqrt(v \div 4) + 1) * (2 * ISqrt(v \div 4) + 1) <= v
    THEN 2 * ISqrt(v \div 4) + 1
    ELSE 2 * ISqrt(v \div 4)

Cut(q, exact) == [q |-> q, exact |-> exact]

CutDiv(lo, t) == Cut(t \div Base, lo.exact /\ t % Base = 0)

(* floor(200 * y / 1024^j) and whether 200 * y / 1024^j is an integer, for
   the digits y[1..j] taken as the fraction below 1024^j *)
RECURSIVE FracTwice(_, _)
FracTwice(y, j) ==
    IF j = 0 THEN Cut(0, TRUE)
    ELSE CutDiv(FracTwice(y, j - 1), 200 * y[j] + FracTwice(y, j - 1).q)

CutSqrt(v, s, rem) == Cut(s, rem = 0 /\ s * s = v)

CutRoot(n, d) == CutSqrt(n \div d, ISqrt(n \div d), n % d)

(* floor(200 * x / 1024^i), and whether nothing was cut off *)
Twice(x, i) ==
    IF x.kind = "int"
    THEN IF Len(x.digits) > i
         THEN Cut(200 * x.digits[i + 1] + FracTwice(x.digits, i).q,
                  FracTwice(x.digits, i).exact)
         ELSE FracTwice(x.digits, Len(x.digits))
    ELSE IF x.root
    THEN CutRoot(40000 * x.num, x.den * Pow(Base, 2 * i))
    ELSE Cut((200 * x.num) \div (x.den * Pow(Base, i)),
             (200 * x.num) % (x.den * Pow(Base, i)) = 0)

(* half of t.q, a half rounding to the even neighbour when it is exact *)
RoundHalfEven(t) ==
    IF t.q % 2 = 0 THEN t.q \div 2
    ELSE IF t.exact /\ (t.q \div 2) % 2 = 0 THEN t.q \div 2
    ELSE t.q \div 2 + 1

(* round(size_bytes / p, 2) in hundredths *)
Round2(x, i) == RoundHalfEven(Twice(x, i))

(* str() of a float with at most two decimals, given in hundredths *)
FloatStr(h) ==
    ToString(h \div 100) \o "." \o
        (IF h % 10 = 0 THEN ToString((h % 100) \div 10)
         ELSE IF h % 100 < 10 THEN "0" \o ToString(h % 100)
         ELSE ToString(h % 100))

Returned(text, unit, h) == [exc |-> "none", text |-> text, unit |-> unit, s100 |-> h]

Raised(e) == [exc |-> e, text |-> "", unit |-> "", s100 |-> 0]

(* line 33 *)
FString(s, unit) == Returned(FloatStr(s) \o " " \o unit, unit, s)

(* lines 31-33, given i: np.power refuses a negative integer exponent, and
   size_name has no index 6 *)
WithIndex(x, i) ==
    IF i < 0 THEN Raised("ValueError")
    ELSE IF i >= Len(size_name) THEN Raised("IndexError")
    ELSE FString(Round2(x, i), size_name[i + 1])

(* lines 27-30: int() refuses NaN *)
OfFloat64(x) ==
    IF IsZero(x) THEN Returned("0 B", "B", 0)
    ELSE IF x.kind = "nan" THEN Raised("ValueError")
    ELSE WithIndex(x, UnitIndex(x))

human_readable_size(size_bytes) == OfFloat64(AsFloat64(size_bytes))

----------------------------------------------------------------------------
(* The bucket: what list_blobs can return for a prefix *)

MaxBlobs == 2

DayLen == 2

None == -1

NaT == -2

PREFIX_LIST ==
    <<"init-stock", "stock-adjust", "centerstock", "purchase", "stocktaking",
      "asn", "order", "lomos", "fresh-plan", "fresh-label", "sales", "ec-sales">>

NumPrefixes == 2

FileSizes == {0, 1, 2}

TimesCreated == {None, 0, 1, 2}

(* Object names are sequences of characters; list_blobs yields them in
   lexicographic order, so the p-th blob is "a/<p>" or the placeholder
   "a/<p>/" of a folder. *)
BlobName(p, folder) ==
    <<"a", "/", ToString(p)>> \o (IF folder THEN <<"/">> ELSE << >>)

BlobsAt(p) ==
    {[name |-> BlobName(p, TRUE), size |-> 0, time_created |-> 0]}
    \cup {[name |-> BlobName(p, FALSE), size |-> s, time_created |-> t] :
            s \in FileSizes, t \in TimesCreated}

list_blobs ==
    UNION {{b \in [1..n -> UNION {BlobsAt(p) : p \in 1..n}] :
              \A p \in 1..n : b[p] \in BlobsAt(p)} : n \in 0..MaxBlobs}

----------------------------------------------------------------------------
(* DataFrames: the column labels, the index labels and the rows in order *)

DataFrame(cols, idx, rows) == [columns |-> cols, index |-> idx, rows |-> rows]

EmptyDF == DataFrame(<< >>, << >>, << >>)

endswith_slash_first(name) == Len(name) > 0 /\ name[1] = "/"

endswith_slash(name) == Len(name) > 0 /\ name[Len(name)] = "/"

to_datetime(t) == IF t = None THEN NaT ELSE t

(* lines 76-92: one dict per blob that is no "directory" entry *)
Record(blob) ==
    [file_name |-> blob.name, file_size_bytes |-> blob.size,
     created_time |-> blob.time_created]

RECURSIVE file_records(_)
file_records(blobs) ==
    IF blobs = << >> THEN << >>
    ELSE IF endswith_slash(blobs[1].name) THEN file_records(Tail(blobs))
    ELSE <<Record(blobs[1])>> \o file_records(Tail(blobs))

Injective(f) == \A i, j \in DOMAIN f : f[i] = f[j] => i = j

SortOrders_unsorted(rows) == {[i \in 1..Len(rows) |-> i]}

(* The orders sort_values('created_time') can leave the rows in, as maps
   from the new position to the old one.  The default kind is quicksort,
   which is not stable: rows with equal keys come out in any order.  Rows
   whose key is NaT are put last, in the order they had. *)
SortOrders(rows) ==
    {f \in [1..Len(rows) -> 1..Len(rows)] :
        /\ Injective(f)
        /\ \A i, j \in 1..Len(rows) :
              i < j =>
                 IF rows[f[i]].created_time = NaT
                 THEN rows[f[j]].created_time = NaT /\ f[i] < f[j]
                 ELSE \/ rows[f[j]].created_time = NaT
                      \/ rows[f[i]].created_time <= rows[f[j]].created_time}

sort_values(d) ==
    {DataFrame(d.columns,
               [i \in 1..Len(d.rows) |-> d.index[f[i]]],
               [i \in 1..Len(d.rows) |-> d.rows[f[i]]]) :
        f \in SortOrders(d.rows)}

(* GCSFileFetcher.fetch_file_records: the results it can return, each an
   exception name ("none": returned) and the DataFrame *)
Fetched(e, d) == [exc |-> e, df |-> d]

(* lines 97-105, given the file_size_hr column: apply raises what the first
   failing human_readable_size raises *)
WithSizeHr(recs, hr) ==
    IF Len(recs) = 0 THEN {Fetched("none", EmptyDF)}
    ELSE IF \E i \in 1..Len(recs) : hr[i].exc # "none"
    THEN {Fetched(hr[CHOOSE i \in 1..Len(recs) :
                        /\ hr[i].exc # "none"
                        /\ \A j \in 1..(i - 1) : hr[j].exc = "none"].exc,
                  EmptyDF)}
    ELSE {Fetched("none", r) :
            r \in sort_values(DataFrame(
                    <<"file_name", "file_size_bytes", "created_time", "file_size_hr">>,
                    [i \in 1..Len(recs) |-> i - 1],
                    [i \in 1..Len(recs) |->
                        [file_name |-> recs[i].file_name,
                         file_size_bytes |-> recs[i].file_size_bytes,
                         created_time |-> to_datetime(recs[i].created_time),
                         file_size_hr |-> hr[i]]]))}

FromRecords(recs) ==
    WithSizeHr(recs,
               [i \in 1..Len(recs) |->
                   human_readable_size(PyInt(ToDigits(recs[i].file_size_bytes)))])

fetch_file_records(blobs) == FromRecords(file_records(blobs))

empty(d) == Len(d.rows) = 0 \/ Len(d.columns) = 0

----------------------------------------------------------------------------
(* view.py *)

RECURSIVE Sum(_, _)
Sum(f, n) == IF n = 0 THEN 0 ELSE f[n] + Sum(f, n - 1)

RECURSIVE Insert(_, _)
Insert(s, x) ==
    IF s = << >> THEN <<x>>
    ELSE IF x <= s[1] THEN <<x>> \o s
    ELSE <<s[1]>> \o Insert(Tail(s), x)

RECURSIVE Sorted(_)
Sorted(s) == IF s = << >> THEN s ELSE Insert(Sorted(Tail(s)), s[1])

RECURSIVE SetToSeq(_)
SetToSeq(S) ==
    IF S = {} THEN << >>
    ELSE <<CHOOSE x \in S : \A y \in S : x <= y>>
         \o SetToSeq(S \ {CHOOSE x \in S : \A y \in S : x <= y})

Sizes(d) == [i \in 1..Len(d.rows) |-> d.rows[i].file_size_bytes]

NoStats == [count |-> 0, mean |-> NaN, std |-> NaN, max |-> NaN, min |-> NaN]

(* lines 63-66: Series.mean, .std (sample, ddof = 1: NaN for one value),
   .max and .min of file_size_bytes *)
Moments(n, s, ss, lo, hi) ==
    [count |-> n,
     mean  |-> Float(s, n),
     std   |-> IF n = 1 THEN NaN ELSE FloatSqrt(n * ss - s * s, n * (n - 1)),
     max   |-> PyInt(ToDigits(hi)),
     min   |-> PyInt(ToDigits(lo))]

OfSizes(x, so) ==
    Moments(Len(x), Sum(x, Len(x)), Sum([i \in 1..Len(x) |-> x[i] * x[i]], Len(x)),
            so[1], so[Len(x)])

statistics(d) == OfSizes(Sizes(d), Sorted(Sizes(d)))

Line(stream, label, text) == [stream |-> stream, label |-> label, text |-> text]

StatLabels == <<"Mean", "Standard Deviation", "Maximum", "Minimum">>

StatHead(stream, pfx, n) ==
    <<Line(stream, "PREFIX", pfx), Line(stream, "Number of files", ToString(n))>>

StatBody(stream, fm, n) == [j \in 1..n |-> Line(stream, StatLabels[j], fm[j].text)]

(* lines 69-83 once nOk of the four values are formatted before one fails:
   the prints come first, the logger gets its lines after all of them *)
Report(st, pfx, fm, nOk) ==
    [stats  |-> st,
     output |-> StatHead("print", pfx, st.count) \o StatBody("print", fm, nOk)
                \o (IF nOk = 4
                    THEN StatHead("log", pfx, st.count) \o StatBody("log", fm, 4)
                    ELSE << >>),
     exc    |-> IF nOk = 4 THEN "none" ELSE fm[nOk + 1].exc]

Formatted(st, pfx, fm) ==
    Report(st, pfx, fm,
           IF \A j \in 1..4 : fm[j].exc = "none" THEN 4
           ELSE (CHOOSE j \in 1..4 :
                    /\ fm[j].exc # "none"
                    /\ \A j2 \in 1..(j - 1) : fm[j2].exc = "none") - 1)

OfStatistics(st, pfx) ==
    Formatted(st, pfx,
              [j \in 1..4 |->
                  human_readable_size(CASE j = 1 -> st.mean [] j = 2 -> st.std
                                        [] j = 3 -> st.max [] OTHER -> st.min)])

(* show_statistics: its locals, the lines it got out before an exception,
   and the exception *)
show_statistics(d, pfx) == OfStatistics(statistics(d), pfx)

(* show_file_list: one line per row of df.head(10) *)
show_file_list(d) ==
    [i \in 1..(IF Len(d.rows) < 10 THEN Len(d.rows) ELSE 10) |->
        [stream |-> "print", label |-> d.rows[i].file_name,
         text |-> d.rows[i].file_size_hr.text, created |-> d.rows[i].created_time]]

(* np.percentile(a, 25 * p), linear interpolation, times 4: a is sorted *)
Interpolate(a, lo, fr) ==
    IF fr = 0 THEN 4 * a[lo] ELSE 4 * a[lo] + fr * (a[lo + 1] - a[lo])

Percentile4(a, p) ==
    Interpolate(a, ((Len(a) - 1) * p) \div 4 + 1, ((Len(a) - 1) * p) % 4)

RECURSIVE CeilRatio(_, _, _, _)
(* the least c >= from with c >= w * n^(1/3) / v, for v > 0 *)
CeilRatio(w, n, v, from) ==
    IF v * v * v * from * from * from >= w * w * w * n THEN from
    ELSE CeilRatio(w, n, v, from + 1)

NoHist == [q25 |-> 0, q75 |-> 0, iqr |-> 0, n |-> 0, bin_width |-> 0,
           bin_count |-> 0]

(* plot_histogram, lines 194-201.  A size in megabytes is kept as the
   numerator of a fraction over 4 * 1024 * 1024 (quarter bytes), and
   bin_width = 2 * iqr / n^(1/3) as its numerator 2 * iqr over n^(1/3).
   With bin_width 0.0 the quotient of line 201 is nan (0.0 / 0.0) or inf,
   which int() refuses; bin_count is then never assigned (0 here). *)
Bins(h, range) ==
    IF h.bin_width = 0
    THEN [hist |-> h,
          exc |-> IF range = 0 THEN "ValueError" ELSE "OverflowError"]
    ELSE [hist |-> [h EXCEPT !.bin_count =
                               Max(CeilRatio(range, h.n, h.bin_width, 0), 1)],
          exc |-> "none"]

Quartiles(a, q25, q75) ==
    Bins([q25 |-> q25, q75 |-> q75, iqr |-> q75 - q25, n |-> Len(a),
          bin_width |-> IF Len(a) > 0 THEN 2 * (q75 - q25) ELSE 4 * 1024 * 1024,
          bin_count |-> 0],
         4 * (a[Len(a)] - a[1]))

OfSortedSizes(a) == Quartiles(a, Percentile4(a, 1), Percentile4(a, 3))

plot_histogram(d) == OfSortedSizes(Sorted(Sizes(d)))

date_timestamp(t) == t

date(t) == IF t = NaT THEN NaT ELSE t \div DayLen

(* plot_daily_file_counts, lines 245-248: df gets the column date_only, and
   groupby('date_only').size() counts the rows of each date, in ascending
   date order; groupby drops the rows whose key is null *)
groupby_size(rows, dates) ==
    [j \in 1..Len(dates) |->
        [date_only |-> dates[j],
         file_count |-> Cardinality({i \in 1..Len(rows) :
                                       rows[i].date_only = dates[j]})]]

WithDateOnly(d, rows) ==
    [df |-> DataFrame(d.columns \o <<"date_only">>, d.index, rows),
     daily_counts |->
        groupby_size(rows,
                     SetToSeq({rows[i].date_only : i \in 1..Len(rows)} \ {NaT}))]

plot_daily_file_counts(d) ==
    WithDateOnly(d, [i \in 1..Len(d.rows) |->
                       d.rows[i] @@ [date_only |-> date(d.rows[i].created_time)]])

File(kind, prefix, header) == [kind |-> kind, prefix |-> prefix, header |-> header]

----------------------------------------------------------------------------
(* controller.process_prefix and main's loop *)

Views == <<"show_statistics", "show_file_list", "plot_time_series",
           "plot_histogram", "plot_daily_file_counts", "save_csv">>

prefix == PREFIX_LIST[k]

Invoked(fn) == [outcome EXCEPT ![k].calls = Append(@, fn)]

(* an exception nothing catches: it leaves process_prefix and ends main *)
Uncaught(fn, e) ==
    /\ pc' = "crashed"
    /\ exc' = e
    /\ outcome' = [Invoked(fn) EXCEPT ![k].status = "raised"]

(* process_prefix returns: its locals are gone *)
Return(oc) ==
    /\ pc' = "main"
    /\ outcome' = [oc EXCEPT ![k].status = "returned"]
    /\ raw' = << >>
    /\ df' = EmptyDF
    /\ fetched' = EmptyDF
    /\ stats' = NoStats
    /\ output' = << >>
    /\ hist' = NoHist
    /\ daily' = << >>

(* main line 43-44 takes the next prefix; process_prefix lines 36-39 *)
Fetch ==
    /\ pc = "main"
    /\ k < NumPrefixes
    /\ k' = k + 1
    /\ \E blobs \in list_blobs :
         \E r \in fetch_file_records(blobs) :
            /\ raw' = blobs
            /\ df' = r.df
            /\ fetched' = r.df
            /\ exc' = r.exc
            /\ pc' = IF r.exc = "none" THEN "fetched" ELSE "crashed"
            /\ outcome' = Append(outcome,
                  [prefix |-> PREFIX_LIST[k + 1],
                   status |-> IF r.exc = "none" THEN "running" ELSE "raised",
                   empty  |-> empty(r.df),
                   calls  |-> << >>])
    /\ UNCHANGED <<stats, output, hist, daily, files, fmtVars>>

(* process_prefix lines 42-44 *)
CheckEmpty ==
    /\ pc = "fetched"
    /\ IF empty(df)
       THEN Return(outcome)
       ELSE /\ pc' = "show_statistics"
            /\ UNCHANGED <<raw, df, fetched, stats, output, hist, daily, outcome>>
    /\ UNCHANGED <<k, exc, files, fmtVars>>

ShowStatistics ==
    /\ pc = "show_statistics"
    /\ \E r \in {show_statistics(df, prefix)} :
           /\ stats' = r.stats
           /\ output' = output \o r.output
           /\ IF r.exc = "none"
              THEN /\ pc' = "show_file_list"
                   /\ outcome' = Invoked("show_statistics")
                   /\ exc' = exc
              ELSE Uncaught("show_statistics", r.exc)
    /\ UNCHANGED <<k, raw, df, fetched, hist, daily, files, fmtVars>>

ShowFileList ==
    /\ pc = "show_file_list"
    /\ output' = output \o show_file_list(df)
    /\ pc' = "plot_time_series"
    /\ outcome' = Invoked("show_file_list")
    /\ UNCHANGED <<k, raw, df, fetched, exc, stats, hist, daily, files, fmtVars>>

PlotTimeSeries ==
    /\ pc = "plot_time_series"
    /\ files' = files \cup {File("file_size_timeseries", prefix, << >>)}
    /\ pc' = "plot_histogram"
    /\ outcome' = Invoked("plot_time_series")
    /\ UNCHANGED <<k, raw, df, fetched, exc, stats, output, hist, daily, fmtVars>>

PlotHistogram ==
    /\ pc = "plot_histogram"
    /\ \E r \in {plot_histogram(df)} :
           /\ hist' = r.hist
           /\ IF r.exc = "none"
              THEN /\ pc' = "plot_daily_file_counts"
                   /\ outcome' = Invoked("plot_histogram")
                   /\ exc' = exc
                   /\ files' = files \cup {File("file_size_distribution", prefix, << >>)}
              ELSE /\ Uncaught("plot_histogram", r.exc)
                   /\ files' = files
    /\ UNCHANGED <<k, raw, df, fetched, stats, output, daily, fmtVars>>

PlotDailyFileCounts ==
    /\ pc = "plot_daily_file_counts"
    /\ \E r \in {plot_daily_file_counts(df)} :
           /\ df' = r.df
           /\ daily' = r.daily_counts
    /\ files' = files \cup {File("daily_file_count", prefix, << >>)}
    /\ pc' = "save_csv"
    /\ outcome' = Invoked("plot_daily_file_counts")
    /\ UNCHANGED <<k, raw, fetched, exc, stats, output, hist, fmtVars>>

(* save_csv, then process_prefix returns *)
SaveCsv ==
    /\ pc = "save_csv"
    /\ files' = files \cup {File("file_list_summary", prefix, df.columns)}
    /\ Return(Invoked("save_csv"))
    /\ UNCHANGED <<k, exc, fmtVars>>

(* PREFIX_LIST is exhausted *)
Exit ==
    /\ pc = "main"
    /\ k = NumPrefixes
    /\ pc' = "done"
    /\ UNCHANGED <<k, raw, df, fetched, exc, stats, output, hist, daily,
                   outcome, files, fmtVars>>

Init ==
    /\ pc = "main"
    /\ k = 0
    /\ raw = << >>
    /\ df = EmptyDF
    /\ fetched = EmptyDF
    /\ exc = "none"
    /\ stats = NoStats
    /\ output = << >>
    /\ hist = NoHist
    /\ daily = << >>
    /\ outcome = << >>
    /\ files = {}
    /\ fx = NaN
    /\ fpc = "idle"
    /\ fres = Raised("none")

Next ==
    \/ Fetch
    \/ CheckEmpty
    \/ ShowStatistics
    \/ ShowFileList
    \/ PlotTimeSeries
    \/ PlotHistogram
    \/ PlotDailyFileCounts
    \/ SaveCsv
    \/ Exit

Spec == Init /\ [][Next]_vars

----------------------------------------------------------------------------
(* human_readable_size on its own: the argument is drawn from integers
   below 2^63 (all digit sequences over SampleDigits up to 1024^6, and some
   picked values) and from floats *)

SampleDigits == {0, 1, 512, 1020, 1023}

SampleInts ==
    {d \in UNION {[1..n -> SampleDigits] : n \in 0..6} :
        d = << >> \/ d[Len(d)] # 0}
    \cup {<<128, 1>>,
          <<959, 1017, 1023, 1023, 1023, 1023>>,
          <<960, 1017, 1023, 1023, 1023, 1023>>,
          <<0, 0, 0, 0, 0, 0, 1>>,
          <<1023, 1023, 1023, 1023, 1023, 1023, 7>>}

SampleFloats == {Float(n, m) : n \in {0, 1, 3, 5, 3072}, m \in {1, 2, 4}}

FmtInputs == {PyInt(d) : d \in SampleInts} \cup SampleFloats

Format ==
    /\ fpc = "call"
    /\ fres' = human_readable_size(fx)
    /\ fpc' = "returned"
    /\ UNCHANGED <<fx, pipeVars>>

InitFmt ==
    /\ pc = "main"
    /\ k = 0
    /\ raw = << >>
    /\ df = EmptyDF
    /\ fetched = EmptyDF
    /\ exc = "none"
    /\ stats = NoStats
    /\ output = << >>
    /\ hist = NoHist
    /\ daily = << >>
    /\ outcome = << >>
    /\ files = {}
    /\ fx \in FmtInputs
    /\ fpc = "call"
    /\ fres = Raised("none")

NextFmt == Format

SpecFmt == InitFmt /\ [][NextFmt]_vars

----------------------------------------------------------------------------
(* The claims *)

Rows == fetched.rows

IsMarker(name) == name[Len(name)] = "/"

Files == {p \in 1..Len(raw) : ~IsMarker(raw[p].name)}

AsTimestamp(t) == IF t = None THEN NaT ELSE t

(* process_prefix is in a view call or was ended there by an exception *)
InCall == pc \notin {"main", "fetched", "done"}

HasRun(fn) == InCall /\ \E i \in 1..Len(outcome[k].calls) : outcome[k].calls[i] = fn

(* C1: what fetch_file_records returns holds no record whose name ends with
   '/', and holds every raw record whose name does not end with '/' exactly
   once, with its name, size and creation time; so it is as long as there
   are such raw records. *)
C1_FilesKeptOnce ==
    pc = "fetched" =>
        /\ \A i \in 1..Len(Rows) : ~IsMarker(Rows[i].file_name)
        /\ \A p \in Files :
              Cardinality({i \in 1..Len(Rows) :
                             /\ Rows[i].file_name = raw[p].name
                             /\ Rows[i].file_size_bytes = raw[p].size
                             /\ Rows[i].created_time = AsTimestamp(raw[p].time_created)})
              = 1
        /\ Len(Rows) = Cardinality(Files)

C1_Witness ==
    /\ pc = "fetched"
    /\ Len(raw) = 2
    /\ IsMarker(raw[1].name)
    /\ ~IsMarker(raw[2].name)
    /\ Len(Rows) = 1

(* C2 as stated: the returned set is sorted ascending by created_time, and
   two records with the same creation timestamp are in the order the raw
   listing had them (the index is the position among the raw files). *)
C2_SortedStable ==
    pc = "fetched" =>
        \A i, j \in 1..Len(Rows) :
            i < j =>
               /\ (Rows[i].created_time # NaT /\ Rows[j].created_time # NaT
                     => Rows[i].created_time <= Rows[j].created_time)
               /\ (Rows[i].created_time = Rows[j].created_time
                     => fetched.index[i] < fetched.index[j])

(* C2 amended: the returned set is sorted ascending by created_time, the
   records without a creation time last and in raw order; nothing is said
   of the order of two records with the same creation timestamp. *)
C2_SortedNullsLast ==
    pc = "fetched" =>
        \A i, j \in 1..Len(Rows) :
            i < j =>
               IF Rows[i].created_time = NaT
               THEN Rows[j].created_time = NaT /\ fetched.index[i] < fetched.index[j]
               ELSE \/ Rows[j].created_time = NaT
                    \/ Rows[i].created_time <= Rows[j].created_time

C2_Witness ==
    /\ pc = "fetched"
    /\ Len(Rows) = 2
    /\ fetched.index = <<1, 0>>
    /\ Rows[1].created_time # NaT
    /\ Rows[1].created_time < Rows[2].created_time

(* C3: for every non-negative argument human_readable_size raises nothing
   and returns a string that ends in one of the labels of size_name. *)
C3_NeverRaises ==
    fpc = "returned" =>
        /\ fres.exc = "none"
        /\ fres.unit \in {"B", "KB", "MB", "GB", "TB", "PB"}

(* C4: over a set of one record the statistics are total: count is 1, mean,
   max and min are the record's size, the standard deviation is 0.0, and
   show_statistics completes. *)
C4_SingleRecordStatistics ==
    HasRun("show_statistics") /\ Len(Rows) = 1 =>
        /\ exc = "none"
        /\ stats.count = 1
        /\ stats.mean = Float(Rows[1].file_size_bytes, 1)
        /\ stats.max = PyInt(ToDigits(Rows[1].file_size_bytes))
        /\ stats.min = PyInt(ToDigits(Rows[1].file_size_bytes))
        /\ stats.std.kind = "float"
        /\ stats.std.num = 0

(* C5: for a non-empty set plot_histogram gets a bin_width above 0 and a
   bin_count of at least 1, and does not fail. *)
C5_BinsDefined ==
    HasRun("plot_histogram") =>
        /\ exc = "none"
        /\ hist.bin_width > 0
        /\ hist.bin_count >= 1

DatesOf(rows) ==
    {rows[i].created_time \div DayLen :
        i \in {i2 \in 1..Len(rows) : rows[i2].created_time # NaT}}

OnDate(rows, dt) ==
    {i \in 1..Len(rows) :
        rows[i].created_time # NaT /\ rows[i].created_time \div DayLen = dt}

DailyEntries ==
    /\ {daily[j].date_only : j \in 1..Len(daily)} = DatesOf(Rows)
    /\ \A i, j \in 1..Len(daily) : i < j => daily[i].date_only < daily[j].date_only
    /\ \A j \in 1..Len(daily) :
          /\ daily[j].file_count = Cardinality(OnDate(Rows, daily[j].date_only))
          /\ daily[j].file_count >= 1

(* C6 as stated: daily_counts has one entry per calendar date among the
   records, in ascending date order, each counting the records of its date,
   and the counts add up to the number of records, those without a creation
   time included. *)
C6_DailyCountsAll ==
    HasRun("plot_daily_file_counts") =>
        /\ DailyEntries
        /\ Sum([j \in 1..Len(daily) |-> daily[j].file_count], Len(daily)) = Len(Rows)

(* C6 amended: as stated, but the counts add up to the number of records
   that have a creation time; a record without one is counted nowhere. *)
C6_DailyCountsDated ==
    HasRun("plot_daily_file_counts") =>
        /\ DailyEntries
        /\ Sum([j \in 1..Len(daily) |-> daily[j].file_count], Len(daily))
           = Cardinality({i \in 1..Len(Rows) : Rows[i].created_time # NaT})

C6_Witness ==
    /\ HasRun("plot_daily_file_counts")
    /\ Len(Rows) = 2
    /\ Len(daily) = 1
    /\ daily[1].file_count = 1

(* C7: a process_prefix call that has ended invoked none of the six views
   and returned, when the fetched set was empty, and invoked all six, in
   their order, when it was not. *)
C7_NoneOrAllSix ==
    \A j \in 1..Len(outcome) :
        outcome[j].status # "running" =>
            IF outcome[j].empty
            THEN outcome[j].calls = << >> /\ outcome[j].status = "returned"
            ELSE outcome[j].calls = Views

(* C8: when main has ended, every prefix of the list has been processed,
   whatever failed before. *)
C8_LaterPrefixesProcessed ==
    pc \in {"done", "crashed"} => Len(outcome) = NumPrefixes

(* C10: what save_csv is passed is what fetch_file_records returned: the
   same records with the same fields. *)
C10_FrameUnchanged ==
    pc = "save_csv" => df = fetched

(* Twice the hundredths of d / 1024^(Len(d) - 1), cut, with the flag "exact" *)
ExactTwice(d, frac) == Cut(200 * d[Len(d)] + frac.q, frac.exact)

InHundredths(t) ==
    IF t.q % 2 = 0 THEN {t.q \div 2}
    ELSE IF t.exact THEN {t.q \div 2, t.q \div 2 + 1}
    ELSE {t.q \div 2 + 1}

(* C9: human_readable_size(0) is "0 B"; for an integer x from 1 to
   1024^6 - 1 it is x / 1024^i rounded to 2 decimals, a space and the i-th
   label, for the i with 1024^i <= x < 1024^(i+1). *)
C9_ExactUnit ==
    fpc = "returned" /\ fx.kind = "int" /\ Len(fx.digits) <= 6 =>
        IF fx.digits = << >> THEN fres.text = "0 B"
        ELSE /\ fres.exc = "none"
             /\ fres.unit = size_name[Len(fx.digits)]
             /\ \E t \in {ExactTwice(fx.digits, FracTwice(fx.digits, Len(fx.digits) - 1))} :
                   fres.s100 \in InHundredths(t)
             /\ fres.text = FloatStr(fres.s100) \o " " \o fres.unit

====
